---- MODULE Spec2Model ----
(***************************************************************************)
(* Multi-agent collaborative debate (MACD): the stage graph of             *)
(* src/main.py (Collaborate, Debate, UserFeedback, END), the per-round     *)
(* propose / declare / decide algorithm, the arbiter's feedback loop and   *)
(* the agents' memories of src/multi_objective_debate/agent.py.            *)
(***************************************************************************)
EXTENDS Integers, Sequences, FiniteSets, TLC

(* ------------------------------ bounds -------------------------------- *)

\* longest role list handed to MACD.ainvoke
MaxRoles == 2
\* the graph's recursion_limit (supersteps allowed in one run)
RecursionLimit == 5
\* longest user_preferences list a node handler is started with in SpecNodes
MaxPrefs == 1
\* most exchanges committed to one agent's memory in SpecAgent
MaxExchanges == 2

(* ------------------------------ values -------------------------------- *)

None == "None"

\* role names (Role identity is its name): the HHH preset
PresetNames == <<"Helpful", "Honest", "Harmless">>
Names == {PresetNames[i] : i \in 1..Len(PresetNames)}

\* what an LLM can answer: the proposal text of the round started at step k
\* (every round's text is new), an objection reason or None
ProposeTexts(k) == {"P" \o ToString(k)}
ObjectionReasons == {"X"}
DeclareResponses == ObjectionReasons \cup {None}

\* what the arbiter can type as the optional reason
Reasons == {"", "Y"}

RECURSIVE SeqsUpTo(_, _)
SeqsUpTo(S, n) ==
  IF n = 0 THEN {<<>>}
  ELSE LET shorter == SeqsUpTo(S, n - 1)
       IN shorter \cup {Append(s, x) : s \in {t \in shorter : Len(t) = n - 1}, x \in S}

Range(s) == {s[i] : i \in 1..Len(s)}

Proposal(r, p) == [role |-> r, proposal |-> p]
Objection(r, reason) == [role |-> r, reason |-> reason]
Divergence(p, objections) == [proposal |-> p, objections |-> objections]
Preference(p, reason) == [proposal |-> p, reason |-> reason]

CollaborateState(queue, proposal, divergences) ==
  [tag |-> "CollaborateState", queue |-> queue, proposal |-> proposal,
   divergences |-> divergences]
DebateState == [tag |-> "DebateState"]
\* a faulty hand-over: the divergence log is not passed on
UserFeedbackStateWithoutLog(proposal, divergences) ==
  [tag |-> "UserFeedbackState", proposal |-> proposal, divergences |-> <<>>]

UserFeedbackState(proposal, divergences) ==
  [tag |-> "UserFeedbackState", proposal |-> proposal, divergences |-> divergences]
EndState(proposals) == [tag |-> "EndState", proposals |-> proposals]

(* ------------------------------ state --------------------------------- *)

VARIABLES
  roles,             \* the role list given to MACD.ainvoke (AgentGroups.roles)
  user_preferences,  \* GraphState channel, reducer operator.add
  stage,             \* GraphState channel
  state,             \* GraphState channel: the payload of the stage
  node,              \* the graph node that runs next ("END" when finished)
  pc,                \* position inside the running node handler
  steps,             \* node executions started so far
  error,             \* the exception that ended the run, or "none"
  role,              \* collaborateRound: the speaker popped for this round
  improved,          \* collaborateRound: the speaker's ProposeResponse
  resps,             \* collaborateRound: declare results, "pending" until returned
  calls,             \* collaborateRound: the agent calls this round has issued
  selected,          \* userFeedbackRound: dict int -> Preference, insertion order
  selection,         \* the line the arbiter typed last
  memory,            \* Agent.memory of each group's propose and declare agent
  temp               \* Agent.temp of each group's propose and declare agent

vars == <<roles, user_preferences, stage, state, node, pc, steps, error, role,
          improved, resps, calls, selected, selection, memory, temp>>

channels == <<user_preferences, stage, state>>
roundLocals == <<role, improved, resps, calls>>
feedbackLocals == <<selected, selection>>
agents == <<memory, temp>>

(* --------------------------- agent groups ----------------------------- *)

\* dict keys in insertion order: the first occurrence of each name
RECURSIVE Mapping(_)
Mapping(rs) ==
  IF rs = <<>> THEN <<>>
  ELSE LET front == Mapping(SubSeq(rs, 1, Len(rs) - 1))
           last == rs[Len(rs)]
       IN IF last \in Range(front) THEN front ELSE Append(front, last)

AgentGroupsGet(r) == IF r \in Range(Mapping(roles)) THEN r ELSE None

AgentGroupsSplit(r) ==
  [group |-> AgentGroupsGet(r),
   others |-> SelectSeq(Mapping(roles), LAMBDA k : k # r)]

\* a faulty invocation: the preferences are left out
ProposeInvocationNoPrefs(proposal, prefs) ==
  [proposal |-> proposal, user_preferences |-> <<>>]

\* prompts.py: what a call is given
ProposeInvocation(proposal, prefs) ==
  [proposal |-> proposal, user_preferences |-> prefs]
DeclareInvocation(prefs, original, p) ==
  [user_preferences |-> prefs, original |-> original, improved |-> p]
Call(g, kind, invocation) == [agent |-> g, kind |-> kind, invocation |-> invocation]

\* the text of an LLM answer the output parser rejects
Malformed == "M"

NoTemp == <<>>

HumanMessage(content) == [type |-> "human", content |-> content]
AIMessage(content) == [type |-> "ai", content |-> content]

\* a faulty agent: the exchange of a call is not kept
AgentInvokeForgetting(t, g, kind, lastMessage, resp) == t

\* a faulty agent: the pending exchange is shared by the agents of a kind
AgentInvokeShared(t, g, kind, lastMessage, resp) ==
  [h \in DOMAIN t |->
     [t[h] EXCEPT ![kind] = <<HumanMessage(lastMessage), AIMessage(resp)>>]]

\* Agent.invoke: temp = (messages[-1], resp)
AgentInvoke(t, g, kind, lastMessage, resp) ==
  [t EXCEPT ![g][kind] = <<HumanMessage(lastMessage), AIMessage(resp)>>]

\* a faulty update: the missing exchange goes unnoticed
AgentUpdateOkAlways(t, g, kind) == TRUE

\* Agent.update: memory.extend(temp); temp = None
AgentUpdateOk(t, g, kind) == t[g][kind] # NoTemp
AgentUpdateMemory(m, t, g, kind) == [m EXCEPT ![g][kind] = @ \o t[g][kind]]
AgentUpdateTemp(t, g, kind) == [t EXCEPT ![g][kind] = NoTemp]

(* ----------------------------- the graph ------------------------------ *)

\* The role lists a run is started with, duplicates included.  Names are
\* labels: a list is taken with its names in preset order of first use.
IsPrefix(s, t) == Len(s) <= Len(t) /\ s = SubSeq(t, 1, Len(s))
RoleLists == {rs \in SeqsUpTo(Names, MaxRoles) : IsPrefix(Mapping(rs), PresetNames)}

Running == error = "none" /\ node # "END"

\* MACD.ainvoke: init_state, fresh agent groups, the entry point
Start(rs) ==
  /\ roles = rs
  /\ user_preferences = <<>>
  /\ stage = "Collaborate"
  /\ state = CollaborateState(roles, None, <<>>)
  /\ node = "Collaborate"
  /\ pc = "enter"
  /\ steps = 0
  /\ error = "none"
  /\ role = None
  /\ improved = None
  /\ resps = <<>>
  /\ calls = <<>>
  /\ selected = <<>>
  /\ selection = None
  /\ memory = [g \in Range(roles) |-> [propose |-> <<>>, declare |-> <<>>]]
  /\ temp = [g \in Range(roles) |-> [propose |-> NoTemp, declare |-> NoTemp]]

Init == \E rs \in RoleLists : Start(rs)

(* ------------------------ graph state updates ------------------------- *)

\* The update a node returns is written channel by channel: stage and state are
\* overwritten (last value), user_preferences goes through its reducer.
\* dict.values(): a view, not a list, in the dict's insertion order
DictValues(d) == [type |-> "dict_values", items |-> [i \in 1..Len(d) |-> d[i].value]]

\* operator.add(list, x): list.__add__ accepts only a list
OperatorAddOk(old, new) == new.type = "list"
OperatorAdd(old, new) == old \o new.items

\* a faulty edge: Collaborate always hands over to UserFeedback
CollaborateEdgeToFeedback(s) == "UserFeedback"

\* The edges out of each node (MACD._init_graph).
CollaborateEdge(s) == IF s = "Collaborate" THEN "Collaborate" ELSE "UserFeedback"
UserFeedbackEdge(s) == IF s = "Debate" THEN "Debate" ELSE "END"
DebateEdge == "Collaborate"

\* a node is dispatched while the recursion limit allows one more step
Dispatch(n) ==
  /\ Running
  /\ node = n
  /\ pc = "enter"
  /\ steps < RecursionLimit

(* --------------------------- collaborateRound ------------------------- *)

\* a faulty pop: the speaker is read but stays at the front
QueuePeek(queue) == queue

\* line 125: role = queue.pop(0) leaves the rest in the queue
QueuePop(queue) == Tail(queue)

\* lines 109-138: stage check, the match on the queue, pop and the propose call
CollaborateEnter ==
  /\ Dispatch("Collaborate")
  /\ steps' = steps + 1
  /\ UNCHANGED <<roles, user_preferences, improved, resps, feedbackLocals, agents>>
  /\ IF stage # "Collaborate"
     THEN /\ error' = "ValueError: Unexpected stage"
          /\ UNCHANGED <<stage, state, node, pc, role, calls>>
     ELSE IF state.queue = <<>>
     THEN /\ stage' = "UserFeedback"
          /\ state' = UserFeedbackState(state.proposal, state.divergences)
          /\ node' = CollaborateEdge(stage')
          /\ UNCHANGED <<pc, error, role, calls>>
     ELSE LET r == Head(state.queue)
          IN /\ role' = r
             /\ state' = [state EXCEPT !.queue = QueuePop(state.queue)]
             /\ IF AgentGroupsSplit(r).group = None
                THEN /\ error' = "ValueError: role not found"
                     /\ UNCHANGED <<stage, node, pc, calls>>
                ELSE /\ pc' = "propose"
                     /\ calls' = <<Call(r, "propose",
                                        ProposeInvocation(state.proposal, user_preferences))>>
                     /\ UNCHANGED <<stage, node, error>>

\* a faulty fan-out: the first of the other groups is not asked
DeclareTargetsButFirst(others) == Tail(others)

\* lines 143-155: the declare calls handed to asyncio.gather, one per group
\* of others, in that order
DeclareTargets(others) == others
DeclareCalls(others, prefs, original, p) ==
  [i \in 1..Len(DeclareTargets(others)) |->
     Call(DeclareTargets(others)[i], "declare", DeclareInvocation(prefs, original, p))]

\* lines 133-155: the speaker's propose call returns, the declare calls are
\* issued together
ProposeReturn ==
  /\ Running
  /\ node = "Collaborate"
  /\ pc = "propose"
  /\ \E p \in ProposeTexts(steps) :
       /\ improved' = p
       /\ temp' = AgentInvoke(temp, role, "propose", state.proposal, p)
       /\ calls' = calls \o DeclareCalls(AgentGroupsSplit(role).others,
                                        user_preferences, state.proposal, p)
  /\ resps' = [g \in Range(DeclareTargets(AgentGroupsSplit(role).others)) |-> "pending"]
  /\ pc' = "declare"
  /\ UNCHANGED <<roles, channels, node, steps, error, role, feedbackLocals, memory>>

\* agent.py 41-46: a call fails in the LLM (temp untouched) or in the output
\* parser (temp already holds the exchange)
FailedTemp(t, g, kind, lastMessage, parsed) ==
  IF parsed THEN AgentInvoke(t, g, kind, lastMessage, Malformed) ELSE t

\* line 133: the propose call raises; the exception leaves the handler
ProposeFail ==
  /\ Running
  /\ node = "Collaborate"
  /\ pc = "propose"
  /\ \E parsed \in BOOLEAN :
       temp' = FailedTemp(temp, role, "propose", state.proposal, parsed)
  /\ error' = "AgentFailure: propose"
  /\ UNCHANGED <<roles, channels, node, pc, steps, roundLocals, feedbackLocals, memory>>

\* a faulty gather: a failure is handed back as a result and not raised
GatherErrorSwallowed == "none"

\* line 143: asyncio.gather raises the failure of a call to the handler, which
\* does not catch it
GatherError == "AgentFailure: declare"

\* The gathered calls run in executor threads.  gather raises the first failure
\* at once and leaves the other calls running: they still return, or fail, after
\* the handler is gone.
DeclaresInFlight ==
  /\ node = "Collaborate"
  /\ pc = "declare"
  /\ error \in {"none", GatherError}

\* lines 102-107, 143-155: one of the gathered declare calls returns
DeclareReturn ==
  /\ DeclaresInFlight
  /\ \E g \in DOMAIN resps, o \in DeclareResponses :
       /\ resps[g] = "pending"
       /\ resps' = [resps EXCEPT ![g] = o]
       /\ temp' = AgentInvoke(temp, g, "declare", <<state.proposal, improved>>, o)
  /\ UNCHANGED <<roles, channels, node, pc, steps, error, role, improved, calls,
                 feedbackLocals, memory>>

\* lines 102-107, 143-155: one of the gathered declare calls raises
DeclareFail ==
  /\ DeclaresInFlight
  /\ \E g \in DOMAIN resps, parsed \in BOOLEAN :
       /\ resps[g] = "pending"
       /\ resps' = [resps EXCEPT ![g] = "failed"]
       /\ temp' = FailedTemp(temp, g, "declare", <<state.proposal, improved>>, parsed)
  /\ error' = GatherError
  /\ UNCHANGED <<roles, channels, node, pc, steps, role, improved, calls,
                 feedbackLocals, memory>>

\* lines 160-164: the objections, in the order of others
RECURSIVE Objections(_, _)
Objections(others, rs) ==
  IF others = <<>> THEN <<>>
  ELSE LET g == Head(others)
           rest == Objections(Tail(others), rs)
       IN IF rs[g] # None THEN <<Objection(g, rs[g])>> \o rest ELSE rest

\* a faulty decision: every proposal is rejected, objection or not
RejectedAlways(objections) == TRUE

\* a faulty decision: a single objection does not reject
RejectedByMajority(objections) == Len(objections) > 1

\* line 167: if objections
Rejected(objections) == objections # <<>>

\* lines 157-158: every declaring agent commits its exchange
RECURSIVE UpdateAllMemory(_, _, _)
UpdateAllMemory(m, t, others) ==
  IF others = <<>> THEN m
  ELSE UpdateAllMemory(AgentUpdateMemory(m, t, Head(others), "declare"), t, Tail(others))

RECURSIVE UpdateAllTemp(_, _)
UpdateAllTemp(t, others) ==
  IF others = <<>> THEN t
  ELSE UpdateAllTemp(AgentUpdateTemp(t, Head(others), "declare"), Tail(others))

\* a faulty log: the new Divergence replaces the earlier ones
RejectedStateReplacing(s, r, p, objections) ==
  [s EXCEPT !.divergences = <<Divergence(Proposal(r, p), objections)>>]

\* lines 168-181
RejectedState(s, r, p, objections) ==
  [s EXCEPT !.divergences = Append(@, Divergence(Proposal(r, p), objections))]

\* a faulty rotation: the accepted speaker is not put back
AcceptedStateDropping(s, r, p) ==
  [s EXCEPT !.proposal = p]

\* lines 191-194
AcceptedState(s, r, p) ==
  [s EXCEPT !.queue = Append(@, r), !.proposal = p]

\* a faulty commit: the speaker's exchange is committed whatever the outcome
CommitsProposeAlways(objections) == TRUE

\* lines 188-197: group.propose.update() is in the accept branch only
CommitsPropose(objections) == ~Rejected(objections)

\* lines 157-202: after the gather has joined, commit the declarations, decide
CollaborateDecide ==
  /\ Running
  /\ node = "Collaborate"
  /\ pc = "declare"
  /\ \A g \in DOMAIN resps : resps[g] # "pending"
  /\ LET others == AgentGroupsSplit(role).others
         objections == Objections(others, resps)
         committed == UpdateAllMemory(memory, temp, others)
         cleared == UpdateAllTemp(temp, others)
     IN IF \E g \in Range(others) : ~AgentUpdateOk(temp, g, "declare")
        THEN /\ error' = "ValueError: please invoke first before update"
             /\ UNCHANGED <<channels, node, pc, roundLocals, agents>>
        ELSE /\ state' = IF Rejected(objections)
                       THEN RejectedState(state, role, improved, objections)
                       ELSE AcceptedState(state, role, improved)
             /\ IF CommitsPropose(objections)
                THEN /\ memory' = AgentUpdateMemory(committed, cleared, role, "propose")
                     /\ temp' = AgentUpdateTemp(cleared, role, "propose")
                ELSE /\ memory' = committed
                     /\ temp' = cleared
             /\ stage' = "Collaborate"
             /\ node' = CollaborateEdge(stage')
             /\ pc' = "enter"
             /\ role' = None
             /\ improved' = None
             /\ resps' = <<>>
             /\ calls' = <<>>
             /\ UNCHANGED <<user_preferences, error>>
  /\ UNCHANGED <<roles, steps, feedbackLocals>>

(* ----------------------------- debateRound ---------------------------- *)

\* line 218: the stage debateRound returns
DebateReturnStage == "Debate"

\* lines 212-220 and the edge Debate -> Collaborate
DebateRound ==
  /\ Dispatch("Debate")
  /\ steps' = steps + 1
  /\ UNCHANGED <<roles, user_preferences, pc, roundLocals, feedbackLocals, agents>>
  /\ IF stage # "Debate"
     THEN /\ error' = "ValueError: Unexpected stage"
          /\ UNCHANGED <<stage, state, node>>
     ELSE /\ stage' = DebateReturnStage
          /\ state' = state
          /\ node' = DebateEdge
          /\ UNCHANGED error

(* -------------------------- userFeedbackRound ------------------------- *)

\* The lines the arbiter can type.  Decimal numerals are written by ToString;
\* "01" is a numeral with a leading zero, "^2" stands for the one-character
\* line SUPERSCRIPT TWO (str.isnumeric() is true of it, int() rejects it),
\* " c " is the command with blanks around it.
MaxSelection == MaxRoles + 1
Numerals == {ToString(i) : i \in 0..MaxSelection}
Inputs == Numerals \cup {"01", "^2", "c", " c ", "q", "abc"}

\* str.isnumeric()
IsNumeric(s) == s \in Numerals \cup {"01", "^2"}
\* str.strip()
Strip(s) == IF s = " c " THEN "c" ELSE s
\* int(): defined on the decimal numerals only
IntOk(s) == s \in Numerals \cup {"01"}
ParseInt(s) == IF s = "01" THEN 1 ELSE CHOOSE i \in 0..MaxSelection : ToString(i) = s

\* a dict as the sequence of its items in insertion order
Keys(d) == {d[i].key : i \in 1..Len(d)}
DictSet(d, k, v) == Append(d, [key |-> k, value |-> v])

\* list[i] for a Python index i: negative indices count from the end
IndexOk(list, i) == -Len(list) <= i /\ i < Len(list)
Index(list, i) == IF i >= 0 THEN list[i + 1] ELSE list[Len(list) + i + 1]

\* lines 264-270: the two checks made on a number before it is used
OutOfRange(n, divergences) == n > Len(divergences)
AlreadySelected(n, d) == n \in Keys(d)

\* lines 250-257: the proposals of the EndState returned on "q"
QuitProposals(prefs, d) == [i \in 1..Len(d) |-> d[i].value.proposal]

\* line 278: reason or None
ReasonOrNone(reason) == IF reason = "" THEN None ELSE reason

\* lines 229-241: stage check, an empty selection, the proposals are printed
FeedbackEnter ==
  /\ Dispatch("UserFeedback")
  /\ steps' = steps + 1
  /\ UNCHANGED <<roles, channels, node, roundLocals, selection, agents>>
  /\ IF stage # "UserFeedback"
     THEN /\ error' = "ValueError: Unexpected stage"
          /\ UNCHANGED <<pc, selected>>
     ELSE /\ selected' = <<>>
          /\ pc' = "prompt"
          /\ UNCHANGED error

\* an exception leaves the loop: the frame and its selected are gone
FeedbackRaise(e) ==
  /\ error' = e
  /\ selected' = <<>>
  /\ UNCHANGED <<channels, node, pc>>

\* the loop goes back to the prompt with nothing recorded
FeedbackReprompt == UNCHANGED <<channels, node, pc, error, selected>>

\* lines 243-287: one turn of the loop, from the prompt to the next prompt, to
\* the return or to the exception
FeedbackInput ==
  /\ Running
  /\ node = "UserFeedback"
  /\ pc = "prompt"
  /\ UNCHANGED <<roles, steps, roundLocals, agents>>
  /\ \E line \in Inputs :
       /\ selection' = line
       /\ IF ~IsNumeric(line)
          THEN IF Strip(line) = "c"
               THEN LET update == DictValues(selected)
                    IN IF OperatorAddOk(user_preferences, update)
                       THEN /\ user_preferences' = OperatorAdd(user_preferences, update)
                            /\ stage' = "Debate"
                            /\ state' = DebateState
                            /\ node' = UserFeedbackEdge(stage')
                            /\ pc' = "enter"
                            /\ selected' = <<>>
                            /\ UNCHANGED error
                       ELSE FeedbackRaise("TypeError: can only concatenate list")
               ELSE IF Strip(line) = "q"
               THEN /\ stage' = "End"
                    /\ state' = EndState(QuitProposals(user_preferences, selected))
                    /\ node' = UserFeedbackEdge(stage')
                    /\ pc' = "enter"
                    /\ selected' = <<>>
                    /\ UNCHANGED <<user_preferences, error>>
               ELSE FeedbackReprompt
          ELSE IF ~IntOk(line)
          THEN FeedbackRaise("ValueError: invalid literal for int()")
          ELSE LET n == ParseInt(line)
               IN IF OutOfRange(n, state.divergences)
                  THEN FeedbackReprompt
                  ELSE IF AlreadySelected(n, selected)
                  THEN FeedbackReprompt
                  ELSE IF ~IndexOk(state.divergences, n - 1)
                  THEN FeedbackRaise("IndexError: list index out of range")
                  ELSE /\ \E reason \in Reasons :
                            selected' =
                              DictSet(selected, n,
                                      Preference(Index(state.divergences, n - 1).proposal,
                                                 ReasonOrNone(reason)))
                       /\ UNCHANGED <<channels, node, pc, error>>

(* --------------------------- the recursion limit ---------------------- *)

\* The compiled graph stops a run that would need more steps than the
\* recursion_limit of its config (main: 150) with GraphRecursionError.
RecursionAbort ==
  /\ Running
  /\ pc = "enter"
  /\ steps >= RecursionLimit
  /\ error' = "GraphRecursionError"
  /\ UNCHANGED <<roles, channels, node, pc, steps, roundLocals, feedbackLocals, agents>>

(* ---------------------------- specifications -------------------------- *)

\* A run of MACD.ainvoke.  No run dispatches the Debate node: "c" ends in the
\* reducer of user_preferences.
Next ==
  \/ CollaborateEnter
  \/ ProposeReturn
  \/ ProposeFail
  \/ DeclareReturn
  \/ DeclareFail
  \/ CollaborateDecide
  \/ FeedbackEnter
  \/ FeedbackInput
  \/ RecursionAbort

Spec == Init /\ [][Next]_vars

\* main: the negotiation of the three roles of the HHH preset
InitMain == Start(PresetNames)

SpecMain == InitMain /\ [][Next]_vars

(* The node handlers are module-level coroutines; what follows a "continue" is
   reachable only by handing them a GraphState directly.  SpecNodes adds, to the
   runs of Spec, the UserFeedback and the Debate node started on the GraphState
   a finished Collaborate phase and a merged "continue" would leave:
   user_preferences holds what earlier feedback rounds accumulated. *)

\* the log of a phase: every role rejected once, in order, by its neighbour
PhaseLog(rs, text) ==
  LET m == Mapping(rs)
  IN IF Len(m) < 2 THEN <<>>
     ELSE [i \in 1..Len(m) |->
             Divergence(Proposal(m[i], text \o ToString(i)),
                        <<Objection(m[(i % Len(m)) + 1], "X")>>)]

\* what that phase leaves in the agents: every declaring agent has committed
\* its exchange of each round it did not speak in, and every speaker's propose
\* exchange is still pending (a rejected proposal is never committed)
RECURSIVE PhaseDeclares(_, _, _, _)
PhaseDeclares(m, g, text, i) ==
  IF i = 0 THEN <<>>
  ELSE PhaseDeclares(m, g, text, i - 1) \o
       (IF m[i] = g THEN <<>>
        ELSE <<HumanMessage(<<None, text \o ToString(i)>>),
               AIMessage(IF g = m[(i % Len(m)) + 1] THEN "X" ELSE None)>>)

PhaseMemory(rs, text) ==
  LET m == Mapping(rs)
  IN [g \in Range(rs) |->
        [propose |-> <<>>,
         declare |-> IF Len(m) < 2 THEN <<>> ELSE PhaseDeclares(m, g, text, Len(m))]]

PhaseTemp(rs, text) ==
  LET m == Mapping(rs)
      round(g) == CHOOSE i \in 1..Len(m) : m[i] = g
  IN [g \in Range(rs) |->
        [propose |-> IF Len(m) < 2 THEN NoTemp
                     ELSE <<HumanMessage(None), AIMessage(text \o ToString(round(g)))>>,
         declare |-> NoTemp]]

EarlierPreferences(rs) ==
  SeqsUpTo({Preference(PhaseLog(rs, "Q")[i].proposal, None) :
              i \in 1..Len(PhaseLog(rs, "Q"))}, MaxPrefs)

\* a phase ends only with no role at all or with two or more distinct ones
InitNode(n, payload) ==
  /\ roles \in {rs \in RoleLists : Len(Mapping(rs)) # 1}
  /\ user_preferences \in EarlierPreferences(roles)
  /\ stage = n
  /\ state = payload
  /\ node = n
  /\ pc = "enter"
  /\ steps = 0
  /\ error = "none"
  /\ role = None
  /\ improved = None
  /\ resps = <<>>
  /\ calls = <<>>
  /\ selected = <<>>
  /\ selection = None
  /\ memory = PhaseMemory(roles, "P")
  /\ temp = PhaseTemp(roles, "P")

InitNodes ==
  \/ Init
  \/ InitNode("UserFeedback", UserFeedbackState(None, PhaseLog(roles, "P")))
  \/ InitNode("Debate", DebateState)

NextNodes ==
  \/ Next
  \/ DebateRound

SpecNodes == InitNodes /\ [][NextNodes]_vars

\* The Collaborate and the Debate node of a two-role negotiation started on a
\* GraphState whose user_preferences earlier feedback rounds have filled.
TwoRoles == SubSeq(PresetNames, 1, 2)

InitPrefs ==
  /\ \/ InitNode("Collaborate", CollaborateState(TwoRoles, None, <<>>))
     \/ InitNode("Debate", DebateState)
  /\ roles = TwoRoles

SpecPrefs == InitPrefs /\ [][NextNodes]_vars

(* The Agent class on its own: invoke and update called in any order on the
   propose and the declare agent of one group. *)

AgentKinds == {"propose", "declare"}
AgentInputs == {"I"}
AgentOutputs == {"O1", "O2", Malformed}
DriverCall(g, kind, op, input, output) ==
  [agent |-> g, kind |-> kind, op |-> op, input |-> input, output |-> output]

InitAgent == Start(<<PresetNames[1]>>)

\* agent.py 32-46: the LLM has answered (a malformed answer is kept in temp too)
InvokeCall ==
  /\ Running
  /\ \E g \in Range(roles), kind \in AgentKinds, i \in AgentInputs, o \in AgentOutputs :
       /\ temp' = AgentInvoke(temp, g, kind, i, o)
       /\ calls' = <<DriverCall(g, kind, "invoke", i, o)>>
  /\ UNCHANGED <<roles, channels, node, pc, steps, error, role, improved, resps,
                 feedbackLocals, memory>>

\* agent.py 48-61
UpdateCall ==
  /\ Running
  /\ \E g \in Range(roles), kind \in AgentKinds :
       /\ Len(memory[g][kind]) < 2 * MaxExchanges
       /\ calls' = <<DriverCall(g, kind, "update", None, None)>>
       /\ IF AgentUpdateOk(temp, g, kind)
          THEN /\ memory' = AgentUpdateMemory(memory, temp, g, kind)
               /\ temp' = AgentUpdateTemp(temp, g, kind)
               /\ UNCHANGED error
          ELSE /\ error' = "ValueError: please invoke first before update"
               /\ UNCHANGED agents
  /\ UNCHANGED <<roles, channels, node, pc, steps, role, improved, resps, feedbackLocals>>

NextAgent ==
  \/ InvokeCall
  \/ UpdateCall

SpecAgent == InitAgent /\ [][NextAgent]_vars

(* ------------------------------- claims ------------------------------- *)

Distinct(s) == \A i, j \in 1..Len(s) : i # j => s[i] # s[j]

\* the steps the claims speak of
DecideStep == node = "Collaborate" /\ pc = "declare" /\ pc' = "enter"
EnterStep == node = "Collaborate" /\ pc = "enter" /\ steps' = steps + 1
DebateStep == node = "Debate" /\ pc = "enter" /\ steps' = steps + 1
FeedbackTurn == node = "UserFeedback" /\ pc = "prompt"
Objected == \E g \in DOMAIN resps : resps[g] # None
Values(d) == [i \in 1..Len(d) |-> d[i].value]
ProposalsOf(prefs) == [i \in 1..Len(prefs) |-> prefs[i].proposal]
LoopEnded == ~(pc' = "prompt" /\ error' = "none")

\* C1 (unanimity law): a round that reaches its decision with at least one
\* objection appends exactly one Divergence carrying the improved proposal of
\* the speaker and leaves the best proposal alone; a round without objection
\* makes the improved proposal the best one and leaves the log alone.
C1_Unanimity ==
  [][DecideStep =>
       IF Objected
       THEN /\ Len(state'.divergences) = Len(state.divergences) + 1
            /\ SubSeq(state'.divergences, 1, Len(state.divergences)) = state.divergences
            /\ state'.divergences[Len(state'.divergences)].proposal
                 = [role |-> role, proposal |-> improved]
            /\ state'.proposal = state.proposal
       ELSE /\ state'.proposal = improved
            /\ state'.divergences = state.divergences]_vars

\* both outcomes have happened: a logged divergence and an accepted proposal
C1_Witness ==
  /\ node = "Collaborate"
  /\ pc = "enter"
  /\ state.divergences # <<>>
  /\ state.proposal # None

\* C2 (rotation law): an accepted speaker moves from the front to the back of
\* the queue; a rejected speaker is in the queue no more, stays out while the
\* phase and the feedback last, and every role is back in the queue when Debate
\* hands over to the next Collaborate phase.
C2_RotationLaw ==
  [][/\ (DecideStep /\ Distinct(roles)) =>
          IF Objected
          THEN role \notin Range(state'.queue)
          ELSE state'.queue = Append(state.queue, role)
     /\ (state.tag = "CollaborateState" /\ state'.tag = "CollaborateState") =>
          \A r \in Range(roles) :
            (r \notin Range(state.queue) /\ r # role) => r \notin Range(state'.queue)
     /\ DebateStep =>
          /\ state'.tag = "CollaborateState"
          /\ \A r \in Range(roles) : r \in Range(state'.queue)]_vars

\* C3 (termination law): a Collaborate step hands over to UserFeedback exactly
\* when it finds the queue empty; it then calls no agent and passes the best
\* proposal and the divergence log on as they are.  Every other Collaborate
\* step that returns hands over to Collaborate.
C3_TerminationLaw ==
  [][/\ (EnterStep /\ error' = "none") =>
          /\ (stage' = "UserFeedback") <=> (state.queue = <<>>)
          /\ (state.queue = <<>>) =>
               /\ node' = "UserFeedback"
               /\ state'.tag = "UserFeedbackState"
               /\ state'.proposal = state.proposal
               /\ state'.divergences = state.divergences
               /\ pc' = "enter"
               /\ UNCHANGED <<temp, memory, resps>>
          /\ (state.queue # <<>>) => (stage' = "Collaborate" /\ node' = "Collaborate")
     /\ DecideStep => (stage' = "Collaborate" /\ node' = "Collaborate")
     /\ (node = "Collaborate" /\ stage' = "UserFeedback") => EnterStep]_vars

\* UserFeedback has been handed a best proposal and a non-empty log
C3_Witness ==
  /\ node = "UserFeedback"
  /\ pc = "enter"
  /\ state.tag = "UserFeedbackState"
  /\ state.proposal # None
  /\ state.divergences # <<>>

\* C4 (quit completeness): on "q" the output is the proposals of the
\* preferences accumulated by earlier rounds followed by those selected in
\* this round.
C4_QuitCompleteness ==
  [][(FeedbackTurn /\ stage' = "End") =>
       /\ state'.tag = "EndState"
       /\ state'.proposals = ProposalsOf(user_preferences \o Values(selected))]_vars

\* C5 (debate identity and loop-back): the Debate step changes nothing but the
\* stage, which it sets to Collaborate, and the Collaborate step that follows is
\* dispatched in stage Collaborate on a Collaborate payload and does not fail
\* its stage check.
C5_DebateLoopBack ==
  [][/\ DebateStep =>
          /\ stage' = "Collaborate"
          /\ error' = "none"
          /\ UNCHANGED <<user_preferences, memory, temp>>
     /\ EnterStep =>
          /\ stage = "Collaborate"
          /\ state.tag = "CollaborateState"
          /\ error' # "ValueError: Unexpected stage"]_vars

\* C6 (continue path): a turn that reads "c" ends without error, appends the
\* preferences selected in this loop, in selection order, to user_preferences,
\* leaves no pending divergence and hands over to Debate.
C6_ContinuePath ==
  [][(FeedbackTurn /\ selection' \in {"c", " c "}) =>
       /\ error' = "none"
       /\ user_preferences' = user_preferences \o Values(selected)
       /\ stage' = "Debate"
       /\ node' = "Debate"
       /\ state'.tag = "DebateState"]_vars

\* C7 (queue invariant): in a run started with distinct role names no role is
\* twice in the queue, and the speaker of a round in progress is not in it.
C7_QueueInvariant ==
  (Distinct(roles) /\ state.tag = "CollaborateState") =>
    /\ Distinct(state.queue)
    /\ (pc \in {"propose", "declare"}) => role \notin Range(state.queue)

\* a round in progress, after an acceptance has rotated the queue
C7_Witness ==
  /\ Distinct(roles)
  /\ Len(roles) >= 2
  /\ node = "Collaborate"
  /\ pc = "declare"
  /\ state.proposal # None
  /\ state.queue # <<>>

\* C8 (out-of-range selection): a number outside 1..n records nothing, changes
\* nothing, raises nothing and is followed by the prompt.
C8_OutOfRange ==
  [][(/\ FeedbackTurn
      /\ IntOk(selection')
      /\ ParseInt(selection') \notin 1..Len(state.divergences)) =>
       /\ selected' = selected
       /\ error' = "none"
       /\ pc' = "prompt"
       /\ UNCHANGED <<user_preferences, stage, state, node>>]_vars

\* C9 (feedback idempotence): within one loop no divergence is recorded as a
\* Preference twice (the proposals of a log are pairwise different).
C9_FeedbackIdempotence ==
  (node = "UserFeedback" /\ pc = "prompt") =>
    \A i, j \in 1..Len(selected) :
      i # j => selected[i].value.proposal # selected[j].value.proposal

\* C10 (selections survive input errors): only "c" and "q" end the loop, and
\* any other line that is not a number leaves the selections as they are and
\* is followed by the prompt.
C10_SelectionsSurvive ==
  [][FeedbackTurn =>
       /\ LoopEnded => selection' \in {"c", " c ", "q"}
       /\ (~IsNumeric(selection') /\ selection' \notin {"c", " c ", "q"}) =>
            (selected' = selected /\ pc' = "prompt" /\ error' = "none")]_vars

\* how a run can have ended
AgentFailures == {"AgentFailure: propose", "AgentFailure: declare"}
Ended == error # "none" \/ node = "END"

\* C11 (bounded termination): a run that has ended has reached End on "q" or
\* was aborted at the step cap (or by a failing agent call, the other fatal
\* ending the specification names); the abort at the cap is not an End and
\* carries no proposal list; no run starts more steps than the cap.
C11_BoundedTermination ==
  /\ steps <= RecursionLimit
  /\ Ended =>
       \/ node = "END" /\ error = "none" /\ state.tag = "EndState"
       \/ error = "GraphRecursionError" /\ node # "END" /\ state.tag # "EndState"
       \/ error \in AgentFailures

\* the roles that declare in a round whose speaker is r
Declarers(r) == Range(roles) \ {r}
Returned(g) == resps[g] \notin {"pending", "failed"}
\* the objections of the returned declarations, in the order of the role list
ObjectionsInRoleOrder ==
  LET objecting == SelectSeq(Mapping(roles), LAMBDA g : g # role /\ resps[g] # None)
  IN [i \in 1..Len(objecting) |-> [role |-> objecting[i], reason |-> resps[objecting[i]]]]

\* C12 (declare fan-out and join): while the propose call of a round is out no
\* declare call has been issued; once it has returned, declare has been issued
\* exactly once for every role other than the speaker, dropped roles included,
\* each with the same preferences, original and improved proposal; the decision
\* and every memory commit come only after all of them have returned, and the
\* decision depends on the responses alone, not on the order they came in.
C12_FanOutJoin ==
  [][/\ (node' = "Collaborate" /\ pc' = "propose" /\ error' = "none") =>
          /\ Len(calls') = 1
          /\ calls'[1].kind = "propose"
          /\ calls'[1].agent = role'
          /\ resps' = <<>>
     /\ (node' = "Collaborate" /\ pc' = "declare") =>
          /\ calls'[1].kind = "propose"
          /\ DOMAIN resps' = Declarers(role')
          /\ \A g \in Declarers(role') :
               Cardinality({i \in 2..Len(calls') : calls'[i].agent = g}) = 1
          /\ \A i \in 2..Len(calls') :
               /\ calls'[i].kind = "declare"
               /\ calls'[i].agent \in Declarers(role')
               /\ calls'[i].invocation =
                    [user_preferences |-> user_preferences',
                     original |-> state'.proposal, improved |-> improved']
     /\ memory' # memory => DecideStep
     /\ DecideStep =>
          /\ \A g \in Declarers(role) : Returned(g)
          /\ IF Objected
             THEN /\ Len(state'.divergences) = Len(state.divergences) + 1
                  /\ state'.divergences[Len(state'.divergences)].objections
                       = ObjectionsInRoleOrder
             ELSE state'.divergences = state.divergences]_vars

\* a dropped role has declared: the second divergence of the log carries an
\* objection of the author of the first
C12_Witness ==
  /\ node = "Collaborate"
  /\ pc = "enter"
  /\ Len(state.divergences) >= 2
  /\ \E i \in 1..Len(state.divergences[2].objections) :
       state.divergences[2].objections[i].role = state.divergences[1].proposal.role

\* the exchanges of the round in progress
DeclareExchange(g) ==
  <<[type |-> "human", content |-> <<state.proposal, improved>>],
    [type |-> "ai", content |-> resps[g]]>>
ProposeExchange ==
  <<[type |-> "human", content |-> state.proposal],
    [type |-> "ai", content |-> improved]>>

C15_CommitPrecondition ==
  [][LET c == calls'[1]
     IN IF c.op = "update"
        THEN IF temp[c.agent][c.kind] = NoTemp
             THEN /\ error' = "ValueError: please invoke first before update"
                  /\ UNCHANGED <<memory, temp>>
             ELSE /\ error' = "none"
                  /\ memory' = [memory EXCEPT ![c.agent][c.kind] = @ \o temp[c.agent][c.kind]]
                  /\ temp' = [temp EXCEPT ![c.agent][c.kind] = NoTemp]
        ELSE /\ error' = "none"
             /\ memory' = memory
             /\ temp' = [temp EXCEPT ![c.agent][c.kind] =
                           <<[type |-> "human", content |-> c.input],
                             [type |-> "ai", content |-> c.output]>>]]_vars

\* an agent has committed an exchange and a second update, with nothing
\* pending, has failed
C15_Witness ==
  /\ error = "ValueError: please invoke first before update"
  /\ \E g \in Range(roles), kind \in AgentKinds :
       /\ calls = <<DriverCall(g, kind, "update", None, None)>>
       /\ Len(memory[g][kind]) = 2
       /\ temp[g][kind] = NoTemp

\* a call of the round in progress has failed
FailedCall ==
  \/ error = "AgentFailure: propose"
  \/ \E g \in DOMAIN resps : resps[g] = "failed"
CalledOnce ==
  \A i, j \in 1..Len(calls) :
    (calls[i].agent = calls[j].agent /\ calls[i].kind = calls[j].kind) => i = j

\* C16 (collaborator failure): the step in which a propose or declare call
\* fails ends the run with that failure and decides nothing: the log, the best
\* proposal and the queue stay as they are, the speaker is not back in the
\* queue, no memory is committed; from then on no call is issued again (every
\* agent has been called at most once in the round) and nothing but the
\* exchanges of calls still out changes.
C16_FailurePropagates ==
  [][/\ FailedCall' =>
          /\ error' \in AgentFailures
          /\ error \in AgentFailures => error' = error
          /\ state'.tag = "CollaborateState"
          /\ role' \notin Range(state'.queue)
          /\ CalledOnce'
          /\ UNCHANGED <<user_preferences, stage, state, node, pc, steps, role,
                         improved, calls, memory>>
     /\ ~FailedCall => CalledOnce']_vars

\* a declare call has failed in a round that follows a rejection and an
\* acceptance, while another declare call of the round is still out
C16_Witness ==
  /\ error = "AgentFailure: declare"
  /\ state.divergences # <<>>
  /\ state.proposal # None
  /\ \E g, h \in DOMAIN resps : resps[g] = "failed" /\ resps[h] = "pending"

\* C17 (preferences reach the rounds): every call a Collaborate round issues,
\* propose and declare, is given the whole user_preferences list as it stands;
\* no step removes or reorders an entry of the list, and Collaborate and Debate
\* steps leave it as it is.
C17_PreferencesPassed ==
  [][/\ \A i \in 1..Len(calls') :
          calls'[i].invocation.user_preferences = user_preferences'
     /\ IsPrefix(user_preferences, user_preferences')
     /\ node \in {"Collaborate", "Debate"} => user_preferences' = user_preferences]_vars

\* the declare calls of a round are out, each given a non-empty list
C17_Witness ==
  /\ node = "Collaborate"
  /\ pc = "declare"
  /\ user_preferences # <<>>
  /\ Len(calls) >= 2
  /\ calls[2].kind = "declare"
  /\ calls[2].invocation.user_preferences = user_preferences

\* the divergence log a payload carries
PendingDivergences(s) ==
  IF s.tag \in {"CollaborateState", "UserFeedbackState"} THEN s.divergences ELSE <<>>
WellFormed(d) ==
  /\ Len(d.objections) >= 1
  /\ \A i \in 1..Len(d.objections) : d.objections[i].role # d.proposal.role

\* C18 (divergence well-formedness): every Divergence of the log has at least
\* one objection and none by the author of its proposal, and the Divergence a
\* round appends is attributed to the speaker of that round.
C18_WellFormedDivergences ==
  [][/\ \A i \in 1..Len(PendingDivergences(state')) :
          WellFormed(PendingDivergences(state')[i])
     /\ Len(PendingDivergences(state')) > Len(PendingDivergences(state)) =>
          /\ DecideStep
          /\ PendingDivergences(state')[Len(PendingDivergences(state'))].proposal.role
               = role]_vars

\* the log holds a Divergence with two objections and one with a single one
C18_Witness ==
  /\ node = "UserFeedback"
  /\ \E i, j \in 1..Len(PendingDivergences(state)) :
       /\ Len(PendingDivergences(state)[i].objections) = 2
       /\ Len(PendingDivergences(state)[j].objections) = 1

\* C19 (divergence log discipline): the log changes only by a rejected round,
\* which appends one entry behind the earlier ones, or by a UserFeedback step,
\* which empties it; every rejected round appends; an accepted round, the
\* empty-queue Collaborate step, the Debate step and every feedback line other
\* than "c" and "q" leave it as it is.
C19_LogDiscipline ==
  [][LET old == PendingDivergences(state)
         new == PendingDivergences(state')
     IN /\ new # old =>
             \/ /\ DecideStep
                /\ Objected
                /\ Len(new) = Len(old) + 1
                /\ SubSeq(new, 1, Len(old)) = old
             \/ /\ node = "UserFeedback"
                /\ new = <<>>
        /\ (DecideStep /\ Objected) => new # old
        /\ (EnterStep /\ error' = "none" /\ state.queue = <<>>) =>
             (new = old /\ node' = "UserFeedback")
        /\ DebateStep => new = old
        /\ (FeedbackTurn /\ selection' \notin {"c", " c ", "q"}) => new = old]_vars

\* the arbiter has typed an invalid line in front of a log of two entries
C19_Witness ==
  /\ node = "UserFeedback"
  /\ pc = "prompt"
  /\ error = "none"
  /\ selection = "abc"
  /\ Len(PendingDivergences(state)) = 2

\* the authors of the log, in order
Authors(divergences) == [i \in 1..Len(divergences) |-> divergences[i].proposal.role]

\* C20 (rotation conservation): in a run started with N distinct roles, between
\* the steps of the Collaborate phase the queue and the log together have N
\* entries and the authors of the log are exactly the roles missing from the
\* queue, each once (while a round is in progress its speaker is the one role
\* in neither); the payload handed to UserFeedback carries N divergences, one
\* per role.
C20_RotationConservation ==
  (Distinct(roles) /\ node # "END") =>
    LET authors == Authors(state.divergences)
    IN /\ Distinct(authors)
       /\ (state.tag = "CollaborateState" /\ pc = "enter") =>
            /\ Len(state.queue) + Len(state.divergences) = Len(roles)
            /\ Range(authors) = Range(roles) \ Range(state.queue)
       /\ (state.tag = "CollaborateState" /\ pc # "enter") =>
            /\ Len(state.queue) + Len(state.divergences) = Len(roles) - 1
            /\ Range(authors) = Range(roles) \ (Range(state.queue) \cup {role})
       /\ state.tag = "UserFeedbackState" =>
            /\ Len(state.divergences) = Len(roles)
            /\ Range(authors) = Range(roles)

\* UserFeedback is entered after a phase of two roles in which a proposal was
\* accepted before both roles were rejected
C20_Witness ==
  /\ Distinct(roles)
  /\ Len(roles) = 2
  /\ node = "UserFeedback"
  /\ pc = "enter"
  /\ state.proposal # None
  /\ Len(state.divergences) = 2

\* no declare call has returned an objection so far
NoObjection ==
  /\ PendingDivergences(state) = <<>>
  /\ \A g \in DOMAIN resps : resps[g] \notin ObjectionReasons
\* the negotiation is still rotating: every role is in the queue or speaking,
\* the stage is Collaborate, the arbiter has not been prompted, and the run
\* goes on or has ended in one of endings
Rotating(endings) ==
  /\ state.tag = "CollaborateState"
  /\ stage = "Collaborate"
  /\ node = "Collaborate"
  /\ selection = None
  /\ Len(state.queue) = Len(roles) - (IF pc = "enter" THEN 0 ELSE 1)
  /\ error \in {"none"} \cup endings
PhaseEndsAfterRejections ==
  (EnterStep /\ stage' = "UserFeedback") =>
    \A r \in Range(roles) : r \in Range(Authors(state.divergences))

PreconditionErrors ==
  {"ValueError: Unexpected stage", "ValueError: role not found",
   "ValueError: please invoke first before update"}

====
